---------------------------- MODULE Spec2Model ----------------------------
(***************************************************************************)
(* rsqlite: a database/sql driver for an rqlite cluster.                   *)
(*                                                                         *)
(* State machine of the ClusterManager (leader.go) and of the Conn         *)
(* (connection.go).  Goroutines are the members of Threads; every action   *)
(* is one step of one goroutine between two points where another           *)
(* goroutine, or the cluster, can be observed to act: a lock operation, a  *)
(* remote call, a write of a shared field.                                 *)
(*                                                                         *)
(*   SpecCM : goroutines calling the exported ClusterManager methods       *)
(*   Spec   : goroutines calling NewConn and the Conn methods              *)
(***************************************************************************)
EXTENDS Integers, Sequences, FiniteSets, TLC

(***************************************************************************)
(* Bounds of the model.                                                    *)
(***************************************************************************)
\* how many times the cluster changes (a node fails or recovers, the
\* leadership moves) in one behaviour
MaxEnvChanges == 2
\* how many times the clock is advanced in one behaviour
MaxTicks == 2
\* seconds by which one clock step advances time.Now()
TickStep == 15

(***************************************************************************)
(* Program constants.                                                      *)
(***************************************************************************)
\* updateInterval: 30 * time.Second
updateInterval == 30
\* for attempts := 0; attempts < 3; attempts++
MaxAttempts == 3

Threads == {"t1", "t2"}
NoThread == "none"

\* node addresses; "" is Go's empty string (leader unknown)
NoNode == ""
Nodes == {"n1", "n2", "n3"}
NodeOrder == <<"n1", "n2", "n3">>
\* cfg.Nodes, the seed list the ClusterManager is built with
cfgNodes == <<"n1", "n2">>

\* time.Time{} and the wall clock at the start of a behaviour: the zero
\* Time lies further in the past than any interval
ZeroTime == 0
Epoch == ZeroTime + updateInterval
MaxNow == Epoch + MaxTicks * TickStep

VARIABLES
    \* ---- the cluster (the remote service) and the clock
    up,             \* nodes that answer requests
    clusterLeader,  \* the node that accepts writes, NoNode during an election
    envChanges,     \* number of cluster changes so far
    now,            \* time.Now(), in seconds
    \* ---- ClusterManager fields
    leader,         \* cm.leader
    peers,          \* cm.peers
    lastUpdate,     \* cm.lastUpdate
    cmMu,           \* cm.mu : [w |-> writer or NoThread, r |-> set of readers]
    \* ---- Conn fields, and the handles gorqlite.Open has returned
    connState,      \* "none", "constructing", "open" (NewConn returned the
                    \* Conn) or "failed" (NewConn returned an error)
    client,         \* c.client: an index into handles, NilClient for nil
    closed,         \* c.closed
    mu,             \* c.mu
    handles,        \* per handle: the node it is bound to, how often it
                    \* was closed
    \* ---- goroutines
    pc,             \* position of each goroutine
    op,             \* the exported call each goroutine is in
    idx,            \* loop index of the range loop the goroutine is in
    resp,           \* (leader, peers) returned by queryNodeStatus
    ret,            \* the error the finished call returned ("nil": none)
    out,            \* the nodes the finished call returned
    lclient,        \* the local variable client of ExecContext, QueryContext, Ping
    attempts,       \* the loop variable attempts
    cand,           \* the nodes connect tries, in the order it tries them
    node,           \* the node createClient is called with
    newh,           \* the handle createClient has opened
    \* ---- history of the current call, and of the view
    probes,         \* status probes the current call has sent
    sent,           \* requests of any kind the current call has sent to nodes
    tries,          \* write or read attempts the current call has issued
    reconnects,     \* reconnects the current call has begun
    applied,        \* how often a node has applied the write of the current call
    consistencyLevel, \* the consistencyLevel argument of the current call
    entry,          \* what the call found when it entered
    seen,           \* the response the leader a reader has read came from
    torn,           \* the reader's leader and peers came from two responses
    leaderFrom,     \* the probe response cm.leader was taken from
    peersFrom,      \* the probe response cm.peers was taken from
    lastSuccess,    \* when a probe result was last applied
    forced          \* ForceRefresh has reset cm.lastUpdate since then

envVars == <<up, clusterLeader, envChanges, now>>
cmVars == <<leader, peers, lastUpdate, cmMu>>
connVars == <<connState, client, closed, mu, handles>>
locVars == <<lclient, attempts, cand, node, newh>>
thVars == <<pc, op, idx, resp, ret, out, locVars>>
callVars == <<tries, reconnects, consistencyLevel, applied>>
cmHist == <<leaderFrom, peersFrom, lastSuccess, forced>>
histVars == <<probes, sent, callVars, entry, seen, torn, cmHist>>
\* ---- the data source name handed to Open, and what ParseDSN made of it
VARIABLES
    dsn,            \* the data source name, a string
    dsnParts,       \* the parts the data source name was written from
    parsed          \* what ParseDSN has returned: (*Config, error)

dsnVars == <<dsn, dsnParts, parsed>>
vars == <<envVars, cmVars, connVars, thVars, histVars, dsnVars>>

(***************************************************************************)
(* Helpers.                                                                *)
(***************************************************************************)
Range(s) == {s[i] : i \in 1..Len(s)}

\* the members of S in the order of NodeOrder
RECURSIVE InOrder(_, _)
InOrder(S, i) ==
    IF i > Len(NodeOrder) THEN <<>>
    ELSE (IF NodeOrder[i] \in S THEN <<NodeOrder[i]>> ELSE <<>>) \o InOrder(S, i + 1)

\* no consistencyLevel argument
NoLevel == ""

NoResp == [leader |-> NoNode, peers |-> <<>>]
NoEntry == [recent |-> FALSE, fallback |-> FALSE, env |-> 0, afterClose |-> FALSE,
            cancelled |-> FALSE]

\* Go's nil *gorqlite.Connection
NilClient == 0

\* the orders in which a range over a Go map with keys S can run
Orders(S) ==
    {s \in [1..Cardinality(S) -> S] : \A i, j \in 1..Cardinality(S) : i # j => s[i] # s[j]}

\* sync.RWMutex
FreeMu == [w |-> NoThread, r |-> {}]
\* a write lock that does not wait for anybody
CanLockAlways(m) == TRUE
CanLock(m) == m.w = NoThread /\ m.r = {}
\* a read lock that does not wait for the writer
CanRLockAlways(m) == TRUE
CanRLock(m) == m.w = NoThread

(***************************************************************************)
(* The remote service: GET <node>/status.                                  *)
(***************************************************************************)
\* the status document of a node: the leader it knows and the other members
StatusReply(n) ==
    [leader |-> clusterLeader, peers |-> InOrder(up \ {clusterLeader}, 1)]

\* a status document taken for good whatever leader it carries
ProbeOkAnyLeader(n) == n \in up

\* queryNodeStatus: a transport error when the node does not answer,
\* "no leader found" when the document carries an empty leader
ProbeOk(n) == n \in up /\ StatusReply(n).leader # NoNode

(***************************************************************************)
(* Strings and ParseDSN (driver.go).  A string is the sequence of its       *)
(* lexical atoms: the separators , : @ ? & = and the blank are atoms of     *)
(* their own, a scheme prefix and a word without separators are one atom.   *)
(***************************************************************************)
\* strings.Contains(s, c)
Contains(s, c) == \E i \in 1..Len(s) : s[i] = c

\* strings.Split(s, sep): the pieces between the occurrences of sep, the
\* empty ones included; one piece when sep does not occur
RECURSIVE Split(_, _)
Split(s, sep) ==
    IF ~Contains(s, sep) THEN <<s>>
    ELSE LET i == CHOOSE k \in 1..Len(s) :
                      s[k] = sep /\ \A j \in 1..(k - 1) : s[j] # sep
         IN <<SubSeq(s, 1, i - 1)>> \o Split(SubSeq(s, i + 1, Len(s)), sep)

\* strings.HasPrefix(s, p) and strings.TrimPrefix(s, p) for a scheme prefix p
HasPrefix(s, p) == Len(s) > 0 /\ s[1] = p
TrimPrefix(s, p) == IF HasPrefix(s, p) THEN Tail(s) ELSE s

\* strings.TrimSpace(s)
RECURSIVE TrimSpace(_)
TrimSpace(s) ==
    IF Len(s) > 0 /\ s[1] = " " THEN TrimSpace(Tail(s))
    ELSE IF Len(s) > 0 /\ s[Len(s)] = " " THEN TrimSpace(SubSeq(s, 1, Len(s) - 1))
    ELSE s

\* Timeout: 30 * time.Second
DefaultTimeout == 30

\* time.ParseDuration(value), in seconds; NoDuration when it returns an error
NoDuration == 0 - 1
ParseDuration(v) ==
    IF v = <<"45s">> THEN 45
    ELSE IF v = <<"60s">> THEN 60
    ELSE IF v = <<"1m">> THEN 60
    ELSE NoDuration

\* ParseDSN returns nil and an error
NoConfig(e) ==
    [err |-> e, Nodes |-> <<>>, Username |-> <<>>, Password |-> <<>>,
     Timeout |-> 0, ConsistencyLevel |-> <<>>]

\* every node taken for one that has its scheme
HasSchemeAlways(n) == TRUE

\* strings.HasPrefix(node, "http://") || strings.HasPrefix(node, "https://")
HasScheme(n) == HasPrefix(n, "http://") \/ HasPrefix(n, "https://")

\* the loop over strings.Split(dsn, ","): cfg.Nodes
RECURSIVE ParseNodes(_, _)
ParseNodes(pieces, i) ==
    IF i > Len(pieces) THEN <<>>
    ELSE LET n == TrimSpace(pieces[i]) IN
         (IF n = <<>> THEN <<>>
          ELSE IF HasScheme(n) THEN <<n>>
          ELSE <<(<<"http://">> \o n)>>) \o ParseNodes(pieces, i + 1)

\* the loop over strings.Split(params, "&"), from cfg on
RECURSIVE ParseParams(_, _, _)
ParseParams(params, i, cfg) ==
    IF i > Len(params) THEN cfg
    ELSE LET kv == Split(params[i], "=") IN
         IF Len(kv) # 2 THEN ParseParams(params, i + 1, cfg)
         ELSE IF kv[1] = <<"consistency">>
         THEN ParseParams(params, i + 1, [cfg EXCEPT !.ConsistencyLevel = kv[2]])
         ELSE IF kv[1] = <<"timeout">> /\ ParseDuration(kv[2]) # NoDuration
         THEN ParseParams(params, i + 1, [cfg EXCEPT !.Timeout = ParseDuration(kv[2])])
         ELSE ParseParams(params, i + 1, cfg)

\* ParseDSN(dsn): the Config and "nil", or no Config and the error
ParseDSN(d) ==
    IF d = <<>> THEN NoConfig("dsn cannot be empty")
    ELSE
    LET d1 == TrimPrefix(TrimPrefix(d, "sqlite://"), "rqlite://")
        hasAuth == Contains(d1, "@")
        parts == Split(d1, "@")
    IN
    IF hasAuth /\ Len(parts) # 2 THEN NoConfig("invalid dsn format")
    ELSE
    LET authPart == IF hasAuth THEN parts[1] ELSE <<>>
        d2 == IF hasAuth THEN parts[2] ELSE d1
        authParts == Split(authPart, ":")
        user == IF ~hasAuth THEN <<>>
                ELSE IF Contains(authPart, ":") THEN authParts[1] ELSE authPart
        pass == IF hasAuth /\ Contains(authPart, ":") THEN authParts[2] ELSE <<>>
        hasParams == Contains(d2, "?")
        qparts == Split(d2, "?")
    IN
    IF hasParams /\ Len(qparts) # 2 THEN NoConfig("invalid dsn format")
    ELSE
    LET d3 == IF hasParams THEN qparts[1] ELSE d2
        cfg == ParseParams(IF hasParams THEN Split(qparts[2], "&") ELSE <<>>, 1,
                           [NoConfig("nil") EXCEPT
                               !.Username = user, !.Password = pass,
                               !.Timeout = DefaultTimeout,
                               !.ConsistencyLevel = <<"weak">>])
        nodes == ParseNodes(Split(d3, ","), 1)
    IN
    IF d3 = <<>> THEN NoConfig("no nodes specified")
    ELSE IF Len(nodes) = 0 THEN NoConfig("no valid nodes found")
    ELSE [cfg EXCEPT !.Nodes = nodes]

(***************************************************************************)
(* The data source names Open is called with, written from their parts:    *)
(* [scheme][user[:password]@]host1:port1,host2:port2[?key=value&key=value] *)
(***************************************************************************)
Host1 == <<"host1", ":", "4001">>
Host2 == <<"host2", ":", "4002">>
User == <<"user">>
Pass == <<"pass">>

\* a parameter pair key=value, written with eq equals signs
Pair(k, v, eq) == [k |-> k, v |-> v, eq |-> eq]
PairText(q) ==
    IF q.eq = 0 THEN <<q.k>>
    ELSE IF q.eq = 1 THEN <<q.k, "=", q.v>>
    ELSE <<q.k, "=", q.v, "=", q.v>>

Schemes == {<<>>, <<"rqlite://">>}
Auths == {"none", "user", "userpass"}
HostLists ==
    {<<>>, <<Host1>>, <<Host1, Host2>>, <<Host2, Host1>>,
     <<(<<"https://">> \o Host1), Host2>>, <<(<<>>), (<<>>)>>, <<(<<" ">>)>>}
ParamLists ==
    {<<>>,
     <<Pair("consistency", "strong", 1)>>,
     <<Pair("timeout", "45s", 1)>>,
     <<Pair("consistency", "strong", 1), Pair("timeout", "45s", 1)>>,
     <<Pair("timeout", "1m", 1), Pair("consistency", "none", 1)>>,
     <<Pair("consistency", "strong", 0)>>,
     <<Pair("consistency", "strong", 1), Pair("timeout", "45s", 2)>>,
     <<Pair("timeout", "soon", 1)>>}

DSNParts ==
    {p \in [scheme : Schemes, auth : Auths, hosts : HostLists,
            query : BOOLEAN, params : ParamLists] :
        ~p.query => p.params = <<>>}

\* the parts of the empty data source name
NoParts == [scheme |-> <<>>, auth |-> "none", hosts |-> <<>>, query |-> FALSE,
            params |-> <<>>]

\* the strings of ss with sep between them
RECURSIVE Join(_, _)
Join(ss, sep) ==
    IF Len(ss) = 0 THEN <<>>
    ELSE IF Len(ss) = 1 THEN ss[1]
    ELSE ss[1] \o <<sep>> \o Join(Tail(ss), sep)

AuthText(a) ==
    IF a = "none" THEN <<>>
    ELSE IF a = "user" THEN User \o <<"@">>
    ELSE User \o <<":">> \o Pass \o <<"@">>

\* the data source name written from the parts p
Format(p) ==
    p.scheme \o AuthText(p.auth) \o Join(p.hosts, ",")
    \o (IF p.query
        THEN <<"?">> \o Join([i \in 1..Len(p.params) |-> PairText(p.params[i])], "&")
        ELSE <<>>)

\* ParseDSN has not been called
NotParsed == NoConfig("none")

\* the members that answer when the program starts: all of them, or the
\* first seed alone
InitialUp == {Nodes, {cfgNodes[1]}}

(***************************************************************************)
(* Initial state: no Conn yet; the ClusterManager as NewClusterManager     *)
(* (cfg.Nodes) returns it.                                                 *)
(***************************************************************************)
InitRun ==
    /\ up \in InitialUp
    /\ clusterLeader = "n1"
    /\ envChanges = 0
    /\ now = Epoch
    /\ leader = NoNode
    /\ peers = <<>>
    /\ lastUpdate = ZeroTime
    /\ cmMu = FreeMu
    /\ pc = [t \in Threads |-> "idle"]
    /\ op = [t \in Threads |-> "none"]
    /\ idx = [t \in Threads |-> 0]
    /\ resp = [t \in Threads |-> NoResp]
    /\ ret = [t \in Threads |-> "none"]
    /\ out = [t \in Threads |-> <<>>]
    /\ connState = "none"
    /\ client = NilClient
    /\ closed = FALSE
    /\ mu = FreeMu
    /\ handles = <<>>
    /\ lclient = [t \in Threads |-> NilClient]
    /\ attempts = [t \in Threads |-> 0]
    /\ cand = [t \in Threads |-> <<>>]
    /\ node = [t \in Threads |-> NoNode]
    /\ newh = [t \in Threads |-> NilClient]
    /\ sent = [t \in Threads |-> 0]
    /\ tries = [t \in Threads |-> 0]
    /\ reconnects = [t \in Threads |-> 0]
    /\ applied = [t \in Threads |-> 0]
    /\ consistencyLevel = [t \in Threads |-> NoLevel]
    /\ probes = [t \in Threads |-> 0]
    /\ entry = [t \in Threads |-> NoEntry]
    /\ seen = [t \in Threads |-> NoResp]
    /\ torn = [t \in Threads |-> FALSE]
    /\ leaderFrom = NoResp
    /\ peersFrom = NoResp
    /\ lastSuccess = ZeroTime
    /\ forced = FALSE

\* no data source name is parsed in the runs of the ClusterManager and of
\* the Conn: their Config is given by cfgNodes and cfgConsistencyLevel
Init ==
    /\ InitRun
    /\ dsnParts = NoParts
    /\ dsn = Format(NoParts)
    /\ parsed = NotParsed

\* Open is called with one of the data source names
InitDSN ==
    /\ up = Nodes
    /\ InitRun
    /\ dsnParts \in DSNParts
    /\ dsn = Format(dsnParts)
    /\ parsed = NotParsed

(***************************************************************************)
(* The cluster and the clock.                                              *)
(***************************************************************************)
\* The seed nodes fail, recover and take the leadership in any order,
\* MaxEnvChanges times in all; the third member is known to the driver only
\* from status documents.
Unstable == Range(cfgNodes)

NodeFail(n) ==
    /\ envChanges < MaxEnvChanges
    /\ n \in up
    /\ up' = up \ {n}
    /\ envChanges' = envChanges + 1
    /\ UNCHANGED <<clusterLeader, now, cmVars, connVars, thVars, histVars, dsnVars>>

NodeRecover(n) ==
    /\ envChanges < MaxEnvChanges
    /\ n \notin up
    /\ up' = up \cup {n}
    /\ envChanges' = envChanges + 1
    /\ UNCHANGED <<clusterLeader, now, cmVars, connVars, thVars, histVars, dsnVars>>

\* n = NoNode: an election is under way
LeaderChange(n) ==
    /\ envChanges < MaxEnvChanges
    /\ n # clusterLeader
    /\ clusterLeader' = n
    /\ envChanges' = envChanges + 1
    /\ UNCHANGED <<up, now, cmVars, connVars, thVars, histVars, dsnVars>>

Tick ==
    /\ now + TickStep <= MaxNow
    /\ now' = now + TickStep
    /\ UNCHANGED <<up, clusterLeader, envChanges, cmVars, connVars, thVars, histVars, dsnVars>>

(***************************************************************************)
(* ClusterManager (leader.go)                                              *)
(***************************************************************************)
CMOps == {"DiscoverLeader", "ForceRefresh", "GetLeader", "GetPeers",
          "GetAllNodes", "SelectBestNode"}
Levels == {"strong", "weak", "none"}

\* the methods each goroutine calls: the first one refreshes the view, the
\* second one refreshes it too and reads it
Calls(t) ==
    IF t = "t1" THEN {"DiscoverLeader", "ForceRefresh"}
    ELSE CMOps \ {"ForceRefresh"}

\* the comparison of the throttle turned round
ThrottledAfter == now - lastUpdate > updateInterval

\* time.Since(cm.lastUpdate) < cm.updateInterval
Throttled == now - lastUpdate < updateInterval

\* the nodes DiscoverLeader probes, in order: for _, node := range cm.nodes
Candidates == cfgNodes

\* the first seed chosen whatever the view holds
SelectSeedFirst(level) == IF Len(cfgNodes) > 0 THEN cfgNodes[1] ELSE NoNode

\* the choice SelectBestNode makes from the view it reads
SelectBestNode(level) ==
    IF level = "strong" /\ leader # NoNode THEN leader
    ELSE IF leader # NoNode THEN leader
    ELSE IF Len(peers) > 0 THEN peers[1]
    ELSE IF Len(cfgNodes) > 0 THEN cfgNodes[1]
    ELSE NoNode

\* the keys of the map GetAllNodes builds from a leader l and peers ps
AllNodes(l, ps) == (IF l # NoNode THEN {l} ELSE {}) \cup Range(ps)

\* a call starts with the locals of the goroutine's previous call gone
Fresh(t, e) ==
    /\ idx' = [idx EXCEPT ![t] = 0]
    /\ resp' = [resp EXCEPT ![t] = NoResp]
    /\ ret' = [ret EXCEPT ![t] = "none"]
    /\ out' = [out EXCEPT ![t] = <<>>]
    /\ probes' = [probes EXCEPT ![t] = 0]
    /\ entry' = [entry EXCEPT ![t] = e]
    /\ seen' = [seen EXCEPT ![t] = NoResp]
    /\ torn' = [torn EXCEPT ![t] = FALSE]
    /\ lclient' = [lclient EXCEPT ![t] = NilClient]
    /\ attempts' = [attempts EXCEPT ![t] = 0]
    /\ cand' = [cand EXCEPT ![t] = <<>>]
    /\ node' = [node EXCEPT ![t] = NoNode]
    /\ newh' = [newh EXCEPT ![t] = NilClient]
    /\ sent' = [sent EXCEPT ![t] = 0]
    /\ tries' = [tries EXCEPT ![t] = 0]
    /\ reconnects' = [reconnects EXCEPT ![t] = 0]
    /\ applied' = [applied EXCEPT ![t] = 0]
    /\ consistencyLevel' = [consistencyLevel EXCEPT ![t] = NoLevel]

\* the view holds a leader that does not answer and a peer that does
FallbackCase ==
    /\ leader # NoNode
    /\ ~ProbeOk(leader)
    /\ \E i \in 1..Len(peers) : ProbeOk(peers[i])

\* a goroutine calls a method of the ClusterManager
CallCM(t, o) ==
    /\ pc[t] \in {"idle", "done"}
    /\ Fresh(t, NoEntry)
    /\ op' = [op EXCEPT ![t] = o]
    /\ pc' = [pc EXCEPT ![t] =
                CASE o = "DiscoverLeader" -> "dl_enter"
                  [] o = "ForceRefresh" -> "fr_reset"
                  [] o = "GetAllNodes" -> "ga_enter"
                  [] OTHER -> "rd"]
    /\ UNCHANGED <<dsnVars, envVars, cmVars, connVars, leaderFrom, peersFrom,
                   lastSuccess, forced>>

\* DiscoverLeader returns err: to the caller of the ClusterManager, or into
\* connect (err := c.clusterManager.DiscoverLeader(ctx))
DL_Return(t, err) ==
    /\ pc' = [pc EXCEPT ![t] = IF op[t] \in CMOps THEN "done" ELSE "cn_select"]
    /\ ret' = [ret EXCEPT ![t] = err]

\* a failed probe that forgets the leader
LeaderCleared == NoNode

\* cm.leader after a probe that returned an error: lastErr = err; continue
LeaderOnError == leader

\* cm.mu.Lock(); the throttle; otherwise the first status request is sent
DL_Enter(t) ==
    /\ pc[t] = "dl_enter"
    /\ CanLock(cmMu)
    /\ entry' = [entry EXCEPT ![t] =
                    [recent |-> lastSuccess # ZeroTime /\ ~forced
                                /\ now - lastSuccess < updateInterval,
                     fallback |-> FallbackCase, env |-> envChanges,
                     afterClose |-> entry[t].afterClose,
                     cancelled |-> entry[t].cancelled]]
    /\ IF Throttled
       THEN /\ DL_Return(t, "nil")
            /\ UNCHANGED <<cmMu, idx, probes, sent>>
       ELSE IF Len(Candidates) = 0
       THEN /\ DL_Return(t, "discover_failed")
            /\ UNCHANGED <<cmMu, idx, probes, sent>>
       ELSE /\ cmMu' = [cmMu EXCEPT !.w = t]
            /\ idx' = [idx EXCEPT ![t] = 1]
            /\ probes' = [probes EXCEPT ![t] = @ + 1]
            /\ sent' = [sent EXCEPT ![t] = @ + 1]
            /\ pc' = [pc EXCEPT ![t] = "dl_probe"]
            /\ UNCHANGED ret
    /\ UNCHANGED <<dsnVars, envVars, leader, peers, lastUpdate, op, resp, out,
                   connVars, locVars, callVars, seen, torn, leaderFrom, peersFrom, lastSuccess, forced>>

\* queryNodeStatus(ctx, node) returns; on success cm.leader is assigned, on
\* failure the loop goes on to the next node or DiscoverLeader fails
DL_Probe(t) ==
    /\ pc[t] = "dl_probe"
    /\ LET n == Candidates[idx[t]] IN
       IF ProbeOk(n)
       THEN /\ resp' = [resp EXCEPT ![t] = StatusReply(n)]
            /\ leader' = StatusReply(n).leader
            /\ leaderFrom' = StatusReply(n)
            /\ pc' = [pc EXCEPT ![t] = "dl_apply"]
            /\ UNCHANGED <<cmMu, idx, ret, probes, sent>>
       ELSE IF idx[t] < Len(Candidates)
       THEN /\ idx' = [idx EXCEPT ![t] = @ + 1]
            /\ probes' = [probes EXCEPT ![t] = @ + 1]
            /\ sent' = [sent EXCEPT ![t] = @ + 1]
            /\ leader' = LeaderOnError
            /\ UNCHANGED <<leaderFrom, cmMu, pc, resp, ret>>
       ELSE /\ cmMu' = [cmMu EXCEPT !.w = NoThread]
            /\ DL_Return(t, "discover_failed")
            /\ leader' = LeaderOnError
            /\ UNCHANGED <<leaderFrom, idx, resp, probes, sent>>
    /\ UNCHANGED <<dsnVars, envVars, peers, lastUpdate, op, out, connVars, locVars,
                   callVars, entry, seen, torn,
                   peersFrom, lastSuccess, forced>>

\* cm.peers = peers; cm.lastUpdate = time.Now(); return nil (deferred Unlock)
DL_Apply(t) ==
    /\ pc[t] = "dl_apply"
    /\ peers' = resp[t].peers
    /\ peersFrom' = resp[t]
    /\ lastUpdate' = now
    /\ lastSuccess' = now
    /\ forced' = FALSE
    /\ cmMu' = [cmMu EXCEPT !.w = NoThread]
    /\ DL_Return(t, "nil")
    /\ resp' = [resp EXCEPT ![t] = NoResp]
    /\ UNCHANGED <<dsnVars, envVars, leader, op, idx, out, connVars, locVars, probes,
                   sent, callVars, entry, seen, torn, leaderFrom>>

\* ForceRefresh: cm.mu.Lock(); cm.lastUpdate = time.Time{}; cm.mu.Unlock();
\* then it calls DiscoverLeader
FR_Reset(t) ==
    /\ pc[t] = "fr_reset"
    /\ CanLock(cmMu)
    /\ lastUpdate' = ZeroTime
    /\ forced' = TRUE
    /\ pc' = [pc EXCEPT ![t] = "dl_enter"]
    /\ UNCHANGED <<dsnVars, envVars, leader, peers, cmMu, op, idx, resp, ret, out,
                   connVars, locVars, probes, sent, callVars, entry, seen, torn, leaderFrom, peersFrom, lastSuccess>>

\* GetLeader, GetPeers, SelectBestNode: cm.mu.RLock(), the reads, RUnlock
CM_Read(t) ==
    /\ pc[t] = "rd"
    /\ CanRLock(cmMu)
    /\ \E l \in (IF op[t] = "SelectBestNode" THEN Levels ELSE {NoLevel}) :
         /\ consistencyLevel' = [consistencyLevel EXCEPT ![t] = l]
         /\ out' = [out EXCEPT ![t] =
                      CASE op[t] = "GetLeader" -> <<leader>>
                        [] op[t] = "GetPeers" -> peers
                        [] OTHER -> <<SelectBestNode(l)>>]
    /\ torn' = [torn EXCEPT ![t] = leaderFrom # peersFrom]
    /\ pc' = [pc EXCEPT ![t] = "done"]
    /\ ret' = [ret EXCEPT ![t] = "nil"]
    /\ UNCHANGED <<dsnVars, envVars, cmVars, connVars, locVars, op, idx, resp, probes,
                   sent, tries, reconnects, applied, entry, seen, leaderFrom, peersFrom,
                   lastSuccess, forced>>

\* GetAllNodes: cm.mu.RLock(); the leader is put into the map
GA_Enter(t) ==
    /\ pc[t] = "ga_enter"
    /\ CanRLock(cmMu)
    /\ cmMu' = [cmMu EXCEPT !.r = @ \cup {t}]
    /\ out' = [out EXCEPT ![t] = <<leader>>]
    /\ seen' = [seen EXCEPT ![t] = leaderFrom]
    /\ pc' = [pc EXCEPT ![t] = "ga_peers"]
    /\ UNCHANGED <<dsnVars, envVars, leader, peers, lastUpdate, op, idx, resp, ret,
                   connVars, locVars, probes, sent, callVars, entry, torn, leaderFrom, peersFrom, lastSuccess, forced>>

\* GetAllNodes: the peers are put into the map, the map's keys are returned
\* in the order the range over the map yields them; RUnlock
GA_Finish(t) ==
    /\ pc[t] = "ga_peers"
    /\ \E s \in Orders(AllNodes(out[t][1], peers)) :
         out' = [out EXCEPT ![t] = s]
    /\ torn' = [torn EXCEPT ![t] = seen[t] # peersFrom]
    /\ seen' = [seen EXCEPT ![t] = NoResp]
    /\ cmMu' = [cmMu EXCEPT !.r = @ \ {t}]
    /\ pc' = [pc EXCEPT ![t] = "done"]
    /\ ret' = [ret EXCEPT ![t] = "nil"]
    /\ UNCHANGED <<dsnVars, envVars, leader, peers, lastUpdate, op, idx, resp,
                   connVars, locVars, probes, sent, callVars, entry, leaderFrom, peersFrom, lastSuccess, forced>>

(***************************************************************************)
(* Conn (connection.go)                                                    *)
(***************************************************************************)
ConnOps == {"ExecContext", "QueryContext", "Ping", "Close", "PrepareContext",
            "BeginTx"}
ExecOps == {"ExecContext", "QueryContext"}
\* the methods of the Tx that BeginTx returns
TxOps == {"Commit", "Rollback"}

\* cfg.ConsistencyLevel: the level the connection string asks for
cfgConsistencyLevel == "strong"

\* the methods that take the caller's ctx, which may be cancelled, or past
\* its deadline, when the call is made
CtxOps == ExecOps \cup {"Ping"}

\* the goroutine that opens the connection
Opener == "t1"

\* the calls a goroutine makes with a ctx that may be cancelled; the other
\* calls are made with a ctx that is live
CtxCalls(t) == IF t = Opener THEN {} ELSE {"Ping", "QueryContext"}

\* the methods each goroutine calls on the Conn
ConnCalls(t) ==
    IF t = Opener THEN {"ExecContext", "Ping", "Close"} ELSE ConnOps \cup TxOps

\* what the Conn and the ClusterManager leave alone in a step that touches
\* neither the view nor a reader's result
viewVars == <<cmVars, cmHist, probes, resp, out, seen, torn>>

\* ---- the remote service, as gorqlite reaches it
HandleOpen(h) == h # NilClient /\ handles[h].closes = 0

\* gorqlite.Open(node), and SELECT 1 on a fresh handle
NodeAnswers(n) == n \in up

\* WriteOneParameterized on handle h: the node must answer and be the leader;
\* QueryOneParameterized and SELECT 1: the node must answer
RequestOk(h, o) ==
    /\ HandleOpen(h)
    /\ NodeAnswers(handles[h].node)
    /\ o = "ExecContext" => handles[h].node = clusterLeader

\* the request of t's call fails with ctx.Err(): Ping passes its ctx to
\* client.QueryOneContext(ctx, "SELECT 1"); WriteOneParameterized and
\* QueryOneParameterized are called without the ctx of ExecContext and
\* QueryContext
CtxErr(t) == op[t] = "Ping" /\ entry[t].cancelled

\* a Close that leaves the handle open
CloseHandleNot(hs, h) == hs

\* client.Close() on handle h; nothing for nil
CloseHandle(hs, h) == IF h = NilClient THEN hs ELSE [hs EXCEPT ![h].closes = @ + 1]

\* NewConn is called
CallNewConn(t) ==
    /\ t = Opener
    /\ pc[t] = "idle"
    /\ connState = "none"
    /\ connState' = "constructing"
    /\ op' = [op EXCEPT ![t] = "NewConn"]
    /\ pc' = [pc EXCEPT ![t] = "cn_lock"]
    /\ UNCHANGED <<dsnVars, envVars, viewVars, client, closed, mu, handles, idx, ret,
                   locVars, sent, callVars, entry>>

\* a goroutine calls a method of the Conn that NewConn returned, or of the
\* Tx that its BeginTx has just returned
CallConn(t, o) ==
    /\ connState = "open"
    /\ pc[t] \in {"idle", "done"}
    /\ o \in TxOps => op[t] = "BeginTx" /\ pc[t] = "done" /\ ret[t] = "nil"
    /\ \E c \in (IF o \in CtxCalls(t) THEN BOOLEAN ELSE {FALSE}) :
         Fresh(t, [NoEntry EXCEPT !.afterClose = closed, !.cancelled = c])
    /\ op' = [op EXCEPT ![t] = o]
    /\ pc' = [pc EXCEPT ![t] =
                CASE o \in ExecOps \cup {"Ping"} -> "ex_read"
                  [] o = "Close" -> "cl"
                  [] o = "PrepareContext" -> "prep"
                  [] o = "BeginTx" -> "begin"
                  [] OTHER -> "tx"]
    /\ UNCHANGED <<dsnVars, envVars, cmVars, cmHist, connVars>>

\* connect returns err; its deferred c.mu.Unlock() runs.  NewConn returns
\* the Conn, or the error and no Conn.  In ExecContext, QueryContext and
\* Ping the caller of reconnect then calls c.mu.Unlock() itself, on a mutex
\* that is no longer locked, which is a fatal error of the Go runtime.
ConnectReturn(t, err) ==
    /\ mu' = [mu EXCEPT !.w = NoThread]
    /\ ret' = [ret EXCEPT ![t] = err]
    /\ IF op[t] = "NewConn"
       THEN /\ pc' = [pc EXCEPT ![t] = "done"]
            /\ connState' = IF err = "nil" THEN "open" ELSE "failed"
       ELSE /\ pc' = [pc EXCEPT ![t] = "fatal"]
            /\ UNCHANGED connState

\* connect: c.mu.Lock(); if c.closed it returns; else it calls DiscoverLeader
CN_Lock(t) ==
    /\ pc[t] = "cn_lock"
    /\ CanLock(mu)
    /\ IF closed
       THEN ConnectReturn(t, "closed")
       ELSE /\ mu' = [mu EXCEPT !.w = t]
            /\ pc' = [pc EXCEPT ![t] = "dl_enter"]
            /\ UNCHANGED <<ret, connState>>
    /\ UNCHANGED <<dsnVars, envVars, viewVars, client, closed, handles, op, idx,
                   locVars, sent, callVars, entry>>

\* connect, after DiscoverLeader: on an error connectToAnyNode; else
\* SelectBestNode and, for a node, createClient(leader)
CN_Select(t) ==
    /\ pc[t] = "cn_select"
    /\ CanRLock(cmMu)
    /\ idx' = [idx EXCEPT ![t] = 0]
    /\ LET n == SelectBestNode(cfgConsistencyLevel) IN
       IF ret[t] = "nil" /\ n # NoNode
       THEN /\ node' = [node EXCEPT ![t] = n]
            /\ pc' = [pc EXCEPT ![t] = "cc_open"]
       ELSE /\ pc' = [pc EXCEPT ![t] = "cn_any"]
            /\ UNCHANGED node
    /\ UNCHANGED <<dsnVars, envVars, viewVars, connVars, op, ret, lclient, attempts,
                   cand, newh, sent, callVars, entry>>

\* connectToAnyNode: nodes := GetAllNodes(), in the order the map yields
\* them, or cfg.Nodes when there are none; the loop starts
CN_Any(t) ==
    /\ pc[t] = "cn_any"
    /\ CanRLock(cmMu)
    /\ \E s \in Orders(AllNodes(leader, peers)) :
         LET nodes == IF Len(s) = 0 THEN cfgNodes ELSE s IN
         IF Len(nodes) = 0
         THEN /\ ConnectReturn(t, "no_nodes")
              /\ UNCHANGED <<cand, idx, node>>
         ELSE /\ cand' = [cand EXCEPT ![t] = nodes]
              /\ idx' = [idx EXCEPT ![t] = 1]
              /\ node' = [node EXCEPT ![t] = nodes[1]]
              /\ pc' = [pc EXCEPT ![t] = "cc_open"]
              /\ UNCHANGED <<mu, ret, connState>>
    /\ UNCHANGED <<dsnVars, envVars, viewVars, client, closed, handles, op, lclient,
                   attempts, newh, sent, callVars, entry>>

\* createClient has failed: connect falls back to connectToAnyNode, the loop
\* of connectToAnyNode goes on, or it returns "failed to connect to any node"
CreateFailed(t) ==
    IF idx[t] = 0
    THEN /\ pc' = [pc EXCEPT ![t] = "cn_any"]
         /\ UNCHANGED <<idx, node, mu, ret, connState>>
    ELSE IF idx[t] < Len(cand[t])
    THEN /\ idx' = [idx EXCEPT ![t] = @ + 1]
         /\ node' = [node EXCEPT ![t] = cand[t][idx[t] + 1]]
         /\ pc' = [pc EXCEPT ![t] = "cc_open"]
         /\ UNCHANGED <<mu, ret, connState>>
    ELSE /\ ConnectReturn(t, "connect_failed")
         /\ UNCHANGED <<idx, node>>

\* createClient: gorqlite.Open(node)
CC_Open(t) ==
    /\ pc[t] = "cc_open"
    /\ sent' = [sent EXCEPT ![t] = @ + 1]
    /\ IF NodeAnswers(node[t])
       THEN /\ handles' = Append(handles, [node |-> node[t], closes |-> 0])
            /\ newh' = [newh EXCEPT ![t] = Len(handles) + 1]
            /\ pc' = [pc EXCEPT ![t] = "cc_test"]
            /\ UNCHANGED <<idx, node, mu, ret, connState>>
       ELSE /\ CreateFailed(t)
            /\ UNCHANGED <<handles, newh>>
    /\ UNCHANGED <<dsnVars, envVars, viewVars, client, closed, op, lclient, attempts,
                   cand, callVars, entry>>

\* createClient: SELECT 1 on the new handle; on an error client.Close().
\* On success connect binds the handle: c.client = client; return nil
CC_Test(t) ==
    /\ pc[t] = "cc_test"
    /\ sent' = [sent EXCEPT ![t] = @ + 1]
    /\ newh' = [newh EXCEPT ![t] = NilClient]
    /\ IF NodeAnswers(node[t])
       THEN /\ client' = newh[t]
            /\ ConnectReturn(t, "nil")
            /\ UNCHANGED <<handles, idx, node>>
       ELSE /\ handles' = CloseHandle(handles, newh[t])
            /\ CreateFailed(t)
            /\ UNCHANGED client
    /\ UNCHANGED <<dsnVars, envVars, viewVars, closed, op, lclient, attempts, cand,
                   callVars, entry>>

\* the nil check left out
NoClientNever(c) == FALSE

\* if client == nil
NoClient(c) == c = NilClient

\* ExecContext, QueryContext, Ping: c.mu.RLock(); client := c.client;
\* c.mu.RUnlock(); if client == nil, return "connection is closed"
EX_Read(t) ==
    /\ pc[t] = "ex_read"
    /\ CanRLock(mu)
    /\ lclient' = [lclient EXCEPT ![t] = client]
    /\ IF NoClient(client)
       THEN /\ pc' = [pc EXCEPT ![t] = "done"]
            /\ ret' = [ret EXCEPT ![t] = "closed"]
       ELSE /\ pc' = [pc EXCEPT ![t] = "ex_attempt"]
            /\ UNCHANGED ret
    /\ UNCHANGED <<dsnVars, envVars, viewVars, connVars, op, idx, attempts, cand, node,
                   newh, sent, callVars, entry>>

\* the error of the request taken for success
AttemptErrIgnored(t) == FALSE

\* if err != nil, after the request of t's call on the handle it read
AttemptErr(t) == ~RequestOk(lclient[t], op[t]) \/ CtxErr(t)

\* the node applies the write of t's call: WriteOneParameterized has reached
\* the leader on an open handle
Applies(t) == op[t] = "ExecContext" /\ RequestOk(lclient[t], op[t])

\* whether the reply to a write the node has applied is lost on its way
\* back: WriteOneParameterized then returns an error for a write that took
\* effect
ReplyLost(t) == IF Applies(t) THEN BOOLEAN ELSE {FALSE}

\* the retry loop going on to its next attempt with no reconnect between
RC_Skip(t) ==
    /\ pc[t] = "rc_lock"
    /\ attempts[t] < MaxAttempts
    /\ attempts' = [attempts EXCEPT ![t] = @ + 1]
    /\ pc' = [pc EXCEPT ![t] = "ex_attempt"]
    /\ UNCHANGED <<dsnVars, envVars, viewVars, connVars, op, idx, ret, lclient, cand,
                   node, newh, sent, callVars, entry>>

\* one attempt of the loop (WriteOneParameterized, QueryOneParameterized),
\* or the SELECT 1 of Ping, on the handle read before.  An error sends
\* ExecContext and QueryContext to the reconnect while attempts < 2 and to
\* return err after that; Ping always goes to the reconnect.
EX_Attempt(t) ==
    /\ pc[t] = "ex_attempt"
    /\ sent' = [sent EXCEPT ![t] = @ + 1]
    /\ tries' = [tries EXCEPT ![t] = @ + 1]
    /\ applied' = [applied EXCEPT ![t] = IF Applies(t) THEN @ + 1 ELSE @]
    /\ \E lost \in ReplyLost(t) :
         IF ~(AttemptErr(t) \/ lost)
         THEN /\ pc' = [pc EXCEPT ![t] = "done"]
              /\ ret' = [ret EXCEPT ![t] = "nil"]
         ELSE IF op[t] = "Ping" \/ attempts[t] < MaxAttempts - 1
         THEN /\ pc' = [pc EXCEPT ![t] = "rc_lock"]
              /\ UNCHANGED ret
         ELSE /\ pc' = [pc EXCEPT ![t] = "done"]
              /\ ret' = [ret EXCEPT ![t] = "request_failed"]
    /\ UNCHANGED <<dsnVars, envVars, viewVars, connVars, op, idx, locVars, reconnects,
                   consistencyLevel,
                   entry>>

\* c.mu.Lock(); reconnect: the handle is closed and c.client set to nil;
\* reconnect then calls connect
RC_Begin(t) ==
    /\ pc[t] = "rc_lock"
    /\ CanLock(mu)
    /\ mu' = [mu EXCEPT !.w = t]
    /\ reconnects' = [reconnects EXCEPT ![t] = @ + 1]
    /\ handles' = CloseHandle(handles, client)
    /\ client' = NilClient
    /\ pc' = [pc EXCEPT ![t] = "cn_lock"]
    /\ UNCHANGED <<dsnVars, envVars, viewVars, connState, closed, op, idx, ret, locVars,
                   sent, tries, consistencyLevel, applied, entry>>

\* Close leaves the closed handle in c.client
ClientKept == client

\* c.client = nil, in Close
ClientAfterClose == NilClient

\* Close: c.mu.Lock(); nothing when closed already; else c.closed = true,
\* the handle is closed and c.client set to nil; return nil
CL(t) ==
    /\ pc[t] = "cl"
    /\ CanLock(mu)
    /\ IF closed
       THEN UNCHANGED <<closed, client, handles>>
       ELSE /\ closed' = TRUE
            /\ handles' = CloseHandle(handles, client)
            /\ client' = IF client # NilClient THEN ClientAfterClose ELSE client
    /\ pc' = [pc EXCEPT ![t] = "done"]
    /\ ret' = [ret EXCEPT ![t] = "nil"]
    /\ UNCHANGED <<dsnVars, envVars, viewVars, connState, mu, op, idx, locVars, sent,
                   callVars, entry>>

\* PrepareContext: c.mu.RLock(); the error when c.closed, else the Stmt
PREP(t) ==
    /\ pc[t] = "prep"
    /\ CanRLock(mu)
    /\ pc' = [pc EXCEPT ![t] = "done"]
    /\ ret' = [ret EXCEPT ![t] = IF closed THEN "closed" ELSE "nil"]
    /\ UNCHANGED <<dsnVars, envVars, viewVars, connVars, op, idx, locVars, sent,
                   callVars, entry>>

\* a transaction object that refuses to work on a closed Conn
TxRetChecked == IF closed THEN "closed" ELSE "nil"

\* the error BeginTx, Commit and Rollback return: nil
TxRet == "nil"

\* BeginTx: return &Tx{conn: c}, nil
BEGIN(t) ==
    /\ pc[t] = "begin"
    /\ pc' = [pc EXCEPT ![t] = "done"]
    /\ ret' = [ret EXCEPT ![t] = TxRet]
    /\ UNCHANGED <<dsnVars, envVars, viewVars, connVars, op, idx, locVars, sent,
                   callVars, entry>>

\* Tx.Commit, Tx.Rollback: return nil
TxEnd(t) ==
    /\ pc[t] = "tx"
    /\ pc' = [pc EXCEPT ![t] = "done"]
    /\ ret' = [ret EXCEPT ![t] = TxRet]
    /\ UNCHANGED <<dsnVars, envVars, viewVars, connVars, op, idx, locVars, sent,
                   callVars, entry>>

ClusterNext ==
    \/ \E n \in Unstable : NodeFail(n)
    \/ \E n \in Unstable : NodeRecover(n)
    \/ \E n \in Unstable \cup {NoNode} : LeaderChange(n)

NextCM ==
    \/ ClusterNext
    \/ Tick
    \/ \E t \in Threads :
        \/ \E o \in Calls(t) : CallCM(t, o)
        \/ DL_Enter(t)
        \/ DL_Probe(t)
        \/ DL_Apply(t)
        \/ FR_Reset(t)
        \/ CM_Read(t)
        \/ GA_Enter(t)
        \/ GA_Finish(t)

\* the ClusterManager is exercised against a cluster that starts complete
InitCM == Init /\ up = Nodes

SpecCM == InitCM /\ [][NextCM]_vars

\* The clock reaches the Conn only through the throttle of DiscoverLeader,
\* which NewConn passes with cm.lastUpdate zero; it stands still here.
Next ==
    \/ ClusterNext
    \/ \E t \in Threads :
        \/ CallNewConn(t)
        \/ \E o \in ConnCalls(t) : CallConn(t, o)
        \/ CN_Lock(t)
        \/ DL_Enter(t)
        \/ DL_Probe(t)
        \/ DL_Apply(t)
        \/ CN_Select(t)
        \/ CN_Any(t)
        \/ CC_Open(t)
        \/ CC_Test(t)
        \/ EX_Read(t)
        \/ EX_Attempt(t)
        \/ RC_Begin(t)
        \/ CL(t)
        \/ PREP(t)
        \/ BEGIN(t)
        \/ TxEnd(t)

Spec == Init /\ [][Next]_vars

\* Open: cfg, err := ParseDSN(dsn)
Parse ==
    /\ parsed = NotParsed
    /\ parsed' = ParseDSN(dsn)
    /\ UNCHANGED <<dsn, dsnParts, envVars, cmVars, connVars, thVars, histVars>>

NextDSN == Parse

SpecDSN == InitDSN /\ [][NextDSN]_vars

(***************************************************************************)
(* Properties of the Conn, checked under Spec.                             *)
(***************************************************************************)
\* Goroutine t waits in connect for c.mu, which it locked itself before it
\* called reconnect (ExecContext, QueryContext, Ping): sync.RWMutex is not
\* reentrant, nobody else can unlock it, the call never goes on.
SelfDeadlocked(t) == pc[t] = "cn_lock" /\ mu.w = t

\* the call of t has issued attempts and none has succeeded
AllFailed(t) == tries[t] >= 1 /\ ~(pc[t] = "done" /\ ret[t] = "nil")

\* C1 (retries exhausted): an ExecContext or QueryContext call on a connected
\* Conn whose attempts all fail goes on to its third attempt and then
\* returns a failure: it never issues more than 3 attempts, it returns a
\* failure only after the third, and it is never stuck before that.
C1_RetriesExhausted ==
    \A t \in Threads :
        (op[t] \in ExecOps /\ AllFailed(t)) =>
            /\ tries[t] <= MaxAttempts
            /\ pc[t] = "done" => tries[t] = MaxAttempts /\ ret[t] # "nil"
            /\ ~SelfDeadlocked(t)

\* the handle the call of t read is bound to a node that still answers but
\* has lost the leadership to another node that answers
LeaderMoved(t) ==
    /\ lclient[t] # NilClient
    /\ NodeAnswers(handles[lclient[t]].node)
    /\ clusterLeader # NoNode
    /\ clusterLeader # handles[lclient[t]].node
    /\ NodeAnswers(clusterLeader)

\* C2 (retry and rebind): an ExecContext call that has begun to reconnect
\* after a failed attempt on node A, which answers but has lost the
\* leadership to node B, reconnects and retries until it succeeds on B: the
\* call is never stuck, and when it has returned it has returned success
\* after 3 attempts and 2 reconnects, with the Conn bound to B.
C2_RetryRebind ==
    \A t \in Threads :
        (op[t] = "ExecContext" /\ reconnects[t] >= 1 /\ LeaderMoved(t)) =>
            /\ ~SelfDeadlocked(t)
            /\ pc[t] = "done" =>
                  /\ ret[t] = "nil"
                  /\ tries[t] = MaxAttempts
                  /\ reconnects[t] = MaxAttempts - 1
                  /\ client # NilClient
                  /\ handles[client].node = clusterLeader

\* C3 (forced refresh before the retry): a call that has begun the reconnect
\* after a failed attempt and has not yet sent a status probe is on its way
\* to send one: it is not stuck before the refresh.
C3_RefreshBeforeRetry ==
    \A t \in Threads :
        (op[t] \in ExecOps /\ reconnects[t] >= 1 /\ probes[t] = 0) =>
            ~SelfDeadlocked(t)

\* connect cannot succeed: the Conn is closed, or no node it would try answers
ReconnectFails ==
    \/ closed
    \/ \A n \in Range(cfgNodes) \cup AllNodes(leader, peers) : ~NodeAnswers(n)

\* C4 (failed reconnect): when the reconnect after a failed attempt fails,
\* the call returns that failure: it has made a single reconnect, no attempt
\* after it, and it is not stuck in the reconnect.
C4_ReconnectFailure ==
    \A t \in Threads :
        (op[t] \in ExecOps /\ reconnects[t] >= 1 /\ ReconnectFails) =>
            /\ ~SelfDeadlocked(t)
            /\ pc[t] = "done" => ret[t] # "nil"

\* the step in which Close, called by t, runs
Closes(t) == pc[t] = "cl" /\ pc'[t] = "done"

\* C5 (Close is idempotent): a Close on a closed Conn returns nil and leaves
\* c.closed, c.client and every handle as they are; outside the critical
\* sections a closed Conn has no handle; and an ExecContext or QueryContext
\* called after a Close has returned sends nothing to any node and returns
\* an error.
C5_CloseIdempotent ==
    /\ [][\A t \in Threads :
            (Closes(t) /\ closed) =>
                /\ ret'[t] = "nil"
                /\ UNCHANGED <<closed, client, handles>>]_vars
    /\ [](closed /\ mu.w = NoThread => client = NilClient)
    /\ [](\A t \in Threads :
            (op[t] \in ExecOps /\ entry[t].afterClose) =>
                /\ sent[t] = 0
                /\ pc[t] = "done" => ret[t] = "closed")

\* a second Close and a later ExecContext have both returned
C5_Witness ==
    \E t, u \in Threads :
        /\ op[t] = "Close" /\ pc[t] = "done" /\ entry[t].afterClose
        /\ ret[t] = "nil"
        /\ op[u] = "ExecContext" /\ pc[u] = "done" /\ entry[u].afterClose
        /\ ret[u] = "closed"
        /\ Len(handles) >= 1

\* C6 (closed Conn): every call of PrepareContext, BeginTx, ExecContext,
\* QueryContext or Ping made after Close has returned returns the
\* "connection is closed" error.
C6_ClosedFacade ==
    \A t \in Threads :
        (pc[t] = "done" /\ op[t] \in ConnOps \ {"Close"} /\ entry[t].afterClose) =>
            ret[t] = "closed"

\* the step in which ExecContext or QueryContext, called by t, reads c.client
ReadsClient(t) == pc[t] = "ex_read" /\ pc'[t] # "ex_read" /\ op[t] \in ExecOps

\* C7 (no handle): ExecContext and QueryContext on a Conn whose c.client is
\* nil return the error at once: no request, no status probe, no reconnect,
\* and the Conn and the view of the ClusterManager stay as they are.
C7_NotConnected ==
    [][\A t \in Threads :
          (ReadsClient(t) /\ client = NilClient) =>
              /\ pc'[t] = "done"
              /\ ret'[t] = "closed"
              /\ sent'[t] = 0 /\ tries'[t] = 0
              /\ probes'[t] = 0 /\ reconnects'[t] = 0
              /\ UNCHANGED <<connVars, cmVars>>]_vars

\* a QueryContext that found no handle has returned
C7_Witness ==
    \E t \in Threads :
        /\ op[t] = "QueryContext" /\ pc[t] = "done"
        /\ lclient[t] = NilClient
        /\ ret[t] = "closed"
        /\ sent[t] = 0

(***************************************************************************)
(* Properties of the ClusterManager, checked under SpecCM.                 *)
(***************************************************************************)
\* the step in which goroutine t passes the throttle of DiscoverLeader
PassesThrottle(t) == pc[t] = "dl_enter" /\ pc'[t] # "dl_enter"

\* C8 (throttle): a DiscoverLeader call that is not forced and enters less
\* than updateInterval after the last successful refresh, with no
\* ForceRefresh since, returns nil at once: it sends no status probe and
\* leaves cm.leader, cm.peers and cm.lastUpdate as they are.
C8_Throttle ==
    [][\A t \in Threads :
          (PassesThrottle(t) /\ entry'[t].recent) =>
              /\ pc'[t] = "done"
              /\ ret'[t] = "nil"
              /\ probes'[t] = 0
              /\ UNCHANGED <<leader, peers, lastUpdate>>]_vars

\* a throttled call has returned, some time after the refresh it rests on
C8_Witness ==
    \E t \in Threads :
        /\ pc[t] = "done"
        /\ op[t] = "DiscoverLeader"
        /\ entry[t].recent
        /\ ret[t] = "nil"
        /\ probes[t] = 0
        /\ leader # NoNode
        /\ now > lastSuccess

\* C9 (atomic view): whenever the write lock of the ClusterManager is free,
\* cm.leader and cm.peers were taken from one and the same probe response,
\* and no reader has read a leader from one response and peers from another,
\* whatever refreshes run beside it.
C9_AtomicView ==
    /\ cmMu.w = NoThread => leaderFrom = peersFrom
    /\ leaderFrom.leader = leader
    /\ peersFrom.peers = peers
    /\ \A t \in Threads : ~torn[t]

\* a reader has returned while a refresh is half way through replacing a
\* view by a different one
C9_Witness ==
    \E t, u \in Threads :
        /\ pc[t] = "done"
        /\ op[t] = "GetAllNodes"
        /\ pc[u] = "dl_apply"
        /\ peersFrom # NoResp
        /\ leaderFrom # peersFrom

\* the step in which DiscoverLeader returns to its caller
Returns(t) == pc[t] \in {"dl_probe", "dl_apply"} /\ pc'[t] = "done"

\* C10 (fallback): a refresh that is not throttled, made while the believed
\* leader does not answer the status probe and a known peer does, returns
\* nil, and cm.leader and cm.peers are then what that peer reported.
C10_Fallback ==
    [][\A t \in Threads :
          (Returns(t) /\ entry[t].fallback /\ entry[t].env = envChanges) =>
              /\ ret'[t] = "nil"
              /\ \E i \in 1..Len(peers) :
                    /\ ProbeOk(peers[i])
                    /\ leader' = StatusReply(peers[i]).leader
                    /\ peers' = StatusReply(peers[i]).peers]_vars

\* the step in which SelectBestNode, called by t with level l, returns
Selects(t, l) ==
    /\ pc[t] = "rd" /\ op[t] = "SelectBestNode"
    /\ pc'[t] = "done" /\ consistencyLevel'[t] = l

\* C11 (strong routing): SelectBestNode("strong") returns the known leader
\* or the empty string; with no leader known it returns the empty string,
\* neither a peer nor a seed.
C11_StrongRouting ==
    [][\A t \in Threads :
          Selects(t, "strong") =>
              /\ out'[t] \in {<<leader>>, <<NoNode>>}
              /\ leader = NoNode => out'[t] = <<NoNode>>]_vars

(***************************************************************************)
(* Properties of connect, checked under Spec.                              *)
(***************************************************************************)
\* the step in which connect binds a handle: c.client = client
Binds == client' # client /\ client' # NilClient

\* C12 (strong binding): with the consistency level strong, every handle the
\* Conn binds is bound to the leader the ClusterManager believes in at that
\* moment, never to a peer or to a seed that is not the leader.
C12_StrongBinding ==
    [][(cfgConsistencyLevel = "strong" /\ Binds) =>
          /\ leader # NoNode
          /\ handles'[client'].node = leader]_vars

\* the step in which connect, called by t, returns an error
ConnectFails(t) ==
    /\ pc[t] \in {"cn_any", "cc_open", "cc_test"}
    /\ pc'[t] \in {"done", "fatal"}
    /\ ret'[t] # "nil"

\* C13 (connect exhausts the nodes): connect returns an error only after
\* every node of the configured seed list has been tried, and not while a
\* seed that has answered all through the call still answers; the error
\* reaches the caller of NewConn, which gets no Conn.
C13_ConnectExhausts ==
    [][\A t \in Threads :
          ConnectFails(t) =>
              /\ Range(cfgNodes) \subseteq Range(cand[t])
              /\ entry[t].env = envChanges =>
                    \A n \in Range(cfgNodes) : ~NodeAnswers(n)
              /\ op[t] = "NewConn" => connState' = "failed"]_vars

\* c.mu is held by a goroutine that itself waits for it: no later call on
\* the Conn gets past c.mu
Unusable == \E t \in Threads : SelfDeadlocked(t)

\* a leader is elected and answers, and so does a seed
Reachable ==
    /\ clusterLeader # NoNode
    /\ NodeAnswers(clusterLeader)
    /\ \E n \in Range(cfgNodes) : NodeAnswers(n)

\* C14 (recovery): a Conn that is not closed and has lost its handle in a
\* reconnect is not left unusable for good: once nodes answer again, calls on
\* it can go on to bind a handle.
C14_Recovery ==
    (connState = "open" /\ ~closed /\ client = NilClient /\ Reachable) => ~Unusable

\* C15 (Ping): a Ping whose liveness query has failed makes one reconnect and
\* returns its result: it is never stuck in the reconnect, it has sent the
\* query once and begun one reconnect, and when it has returned it has
\* returned what connect returned: nil or the error of connect, never the
\* error of the query.
C15_PingReconnect ==
    \A t \in Threads :
        (op[t] = "Ping" /\ reconnects[t] >= 1) =>
            /\ ~SelfDeadlocked(t)
            /\ tries[t] = 1
            /\ reconnects[t] = 1
            /\ pc[t] = "done" => ret[t] \in {"nil", "closed", "connect_failed", "no_nodes"}

\* C16 (cancellation): a call whose attempt has failed with the error of its
\* cancelled or expired ctx makes no further attempt and no reconnect, is
\* not stuck, and returns a failure.
C16_CancelNotRetried ==
    \A t \in Threads :
        (op[t] \in CtxOps /\ CtxErr(t) /\ tries[t] >= 1) =>
            /\ tries[t] = 1
            /\ reconnects[t] = 0
            /\ pc[t] \in {"ex_attempt", "done"}
            /\ pc[t] = "done" => ret[t] # "nil"

\* the step in which the call of t returns to its caller
ReturnsFrom(t, o) == op[t] = o /\ pc[t] # "done" /\ pc'[t] = "done"

TxStep(t) == pc[t] \in {"begin", "tx"} /\ pc'[t] = "done"

\* C18 (transactions are no-ops): BeginTx, Commit and Rollback return nil in
\* every state of the Conn, send nothing to any node, and leave c.client,
\* c.closed, c.mu, the handles and the view of the ClusterManager as they
\* are.
C18_TxNoOp ==
    [][\A t \in Threads :
          TxStep(t) =>
              /\ ret'[t] = "nil"
              /\ sent'[t] = 0
              /\ UNCHANGED <<connVars, cmVars>>]_vars

\* a Commit or Rollback has returned nil on a Conn that was closed when it
\* was called
C18_Witness ==
    \E t \in Threads :
        /\ op[t] \in TxOps /\ pc[t] = "done"
        /\ entry[t].afterClose
        /\ ret[t] = "nil"
        /\ sent[t] = 0

(***************************************************************************)
(* Properties of ParseDSN, checked under SpecDSN.                          *)
(***************************************************************************)
\* the hosts of p that are not blank
Blank(h) == \A i \in 1..Len(h) : h[i] = " "

\* p is written as user:pass@host1:port1,host2:port2?key=value&key=value
\* with every part optional but the hosts, every pair split by one equals
\* sign, and every timeout a duration
WellFormed(p) ==
    /\ Len(p.hosts) > 0
    /\ \A i \in 1..Len(p.hosts) : ~Blank(p.hosts[i])
    /\ p.query => Len(p.params) > 0
    /\ \A i \in 1..Len(p.params) :
          /\ p.params[i].eq = 1
          /\ p.params[i].k = "timeout" => p.params[i].v \in {"45s", "1m"}

\* the value of the last pair of p with key k, d when there is none
LastValue(p, k, d) ==
    LET I == {i \in 1..Len(p.params) : p.params[i].k = k} IN
    IF I = {} THEN d
    ELSE p.params[CHOOSE i \in I : \A j \in I : j <= i].v

\* the Config the parts p stand for
Expected(p) ==
    [err |-> "nil",
     Nodes |-> [i \in 1..Len(p.hosts) |->
                  IF p.hosts[i][1] \in {"http://", "https://"} THEN p.hosts[i]
                  ELSE <<"http://">> \o p.hosts[i]],
     Username |-> IF p.auth = "none" THEN <<>> ELSE User,
     Password |-> IF p.auth = "userpass" THEN Pass ELSE <<>>,
     Timeout |-> LET v == LastValue(p, "timeout", "30s") IN
                 IF v = "45s" THEN 45 ELSE IF v = "1m" THEN 60 ELSE 30,
     ConsistencyLevel |-> <<LastValue(p, "consistency", "weak")>>]

Unparsable(p) ==
    \/ Format(p) = <<>>
    \/ p.query /\ Len(p.params) = 0
    \/ \E i \in 1..Len(p.params) : p.params[i].eq # 1
    \/ \A i \in 1..Len(p.hosts) : Blank(p.hosts[i])

\* C20 (parse failures): ParseDSN returns an error and no Config for the
\* empty data source name, for one with a parameter pair that does not split
\* on = into exactly two parts, and for one that yields no node.
C20_ParseErrors ==
    (parsed # NotParsed /\ Unparsable(dsnParts)) =>
        /\ parsed.err \notin {"nil", "none"}
        /\ parsed = NoConfig(parsed.err)

(***************************************************************************)
(* Termination of the calls on the Conn, checked under Spec.               *)
(***************************************************************************)
\* goroutine t is at a lock operation on c.mu
AtConnLock(t) == pc[t] \in {"ex_read", "rc_lock", "cn_lock", "cl", "prep"}

\* t waits for c.mu while its holder waits for it too: t is blocked for good
BlockedForGood(t) ==
    /\ AtConnLock(t)
    /\ mu.w # NoThread
    /\ SelfDeadlocked(mu.w)

\* C21 (termination): no call of ExecContext, QueryContext or Ping is ever
\* blocked for good on c.mu, on the path that reconnects after a failed
\* attempt in particular, and neither is a Close that runs beside it.
C21_CallsReturn ==
    \A t \in Threads :
        op[t] \in CtxOps \cup {"Close"} => ~BlockedForGood(t)

(***************************************************************************)
(* Properties of the refresh, checked under SpecCM.                        *)
(***************************************************************************)
\* the step in which the refresh of t sends its first status probe
FirstProbe(t) == pc[t] = "dl_enter" /\ pc'[t] = "dl_probe"

\* the step in which a probe of t's refresh returns
ProbeReturns(t) ==
    /\ pc[t] = "dl_probe"
    /\ pc'[t] # pc[t] \/ idx'[t] # idx[t]

\* C22 (probe order): a refresh that passes the throttle probes the believed
\* leader first when one is known and the seed list in its order otherwise;
\* it stops at the first probe that succeeds and probes no node after it.
C22_ProbeOrder ==
    [][\A t \in Threads :
          /\ FirstProbe(t) =>
                Candidates[idx'[t]] = IF leader # NoNode THEN leader ELSE cfgNodes[1]
          /\ (ProbeReturns(t) /\ ProbeOk(Candidates[idx[t]])) =>
                /\ pc'[t] = "dl_apply"
                /\ probes'[t] = probes[t]
          /\ (pc[t] = "dl_apply") => probes'[t] = probes[t]]_vars

\* the steps taken while the refresh of t holds cm.mu and no probe of it has
\* succeeded, its own and those of everybody else
InFailingRefresh(t) ==
    \/ FirstProbe(t)
    \/ cmMu.w = t /\ pc[t] = "dl_probe" /\ pc'[t] # "dl_apply"

\* the step in which the refresh of t returns after its last probe failed
RefreshFails(t) == pc[t] = "dl_probe" /\ pc'[t] = "done"

\* C23 (failed refresh): a DiscoverLeader in which every probe fails returns
\* an error after it has probed every candidate, and from the moment it
\* took cm.mu to its return cm.leader, cm.peers and cm.lastUpdate stay as
\* they were.
C23_FailedRefresh ==
    [][\A t \in Threads :
          /\ InFailingRefresh(t) => UNCHANGED <<leader, peers, lastUpdate>>
          /\ RefreshFails(t) =>
                /\ ret'[t] = "discover_failed"
                /\ probes'[t] = Len(Candidates)
                /\ cmMu'.w = NoThread]_vars

\* a refresh has failed after a view was stored, and the view is still there
C23_Witness ==
    \E t \in Threads :
        /\ op[t] = "DiscoverLeader" /\ pc[t] = "done"
        /\ ret[t] = "discover_failed"
        /\ probes[t] = Len(Candidates)
        /\ leader # NoNode
        /\ Len(peers) > 0
        /\ lastUpdate # ZeroTime

\* the step that applies the result of a successful probe
AppliesProbe == \E t \in Threads : pc[t] = "dl_apply" /\ pc'[t] # "dl_apply"

\* C24 (lastUpdate): cm.lastUpdate changes only in a step that applies the
\* result of a successful probe, in ForceRefresh as everywhere else.
C24_LastUpdate ==
    [][lastUpdate' # lastUpdate => AppliesProbe]_vars

\* C25 (forced refresh): a ForceRefresh that has returned has sent at least
\* one status probe, whatever refreshes ran beside it.
C25_ForcedProbes ==
    \A t \in Threads :
        (op[t] = "ForceRefresh" /\ pc[t] = "done") => probes[t] >= 1

\* the goroutines whose refresh is past the throttle and has not returned
Refreshing == {t \in Threads : pc[t] \in {"dl_probe", "dl_apply"}}

\* C26 (serialized refresh): at most one refresh is in flight at a time, and
\* it holds the write lock of the ClusterManager: no two status probes
\* overlap.
C26_OneRefresh ==
    /\ Cardinality(Refreshing) <= 1
    /\ \A t \in Refreshing : cmMu.w = t

\* one refresh waits for a probe while another one waits for the lock
C26_Witness ==
    \E t, u \in Threads :
        /\ op[t] = "ForceRefresh" /\ pc[t] = "dl_probe"
        /\ op[u] = "DiscoverLeader" /\ pc[u] = "dl_enter"
        /\ ~Throttled

(***************************************************************************)
(* Properties of the readers of the view, checked under SpecCM.            *)
(***************************************************************************)
\* the node a reader of the weak and none levels is to be sent to
PreferredNode ==
    IF leader # NoNode THEN leader
    ELSE IF peers # <<>> THEN Head(peers)
    ELSE IF cfgNodes # <<>> THEN Head(cfgNodes)
    ELSE NoNode

\* C27 (weak and none routing): SelectBestNode("weak") and
\* SelectBestNode("none") return the known leader, else the first known
\* peer, else the first seed, else the empty string; they send no probe and
\* leave cm.leader, cm.peers and cm.lastUpdate as they are.
C27_WeakRouting ==
    [][\A t \in Threads : \A l \in {"weak", "none"} :
          Selects(t, l) =>
              /\ out'[t] = <<PreferredNode>>
              /\ probes'[t] = 0 /\ sent'[t] = 0
              /\ UNCHANGED <<leader, peers, lastUpdate>>]_vars

\* SelectBestNode("weak") has returned a leader that is not the first seed
C27_Witness ==
    \E t \in Threads :
        /\ op[t] = "SelectBestNode" /\ pc[t] = "done"
        /\ consistencyLevel[t] = "weak"
        /\ leader # NoNode /\ leader # cfgNodes[1]
        /\ out[t] = <<leader>>

\* the step in which GetAllNodes, called by t, returns
ListsNodes(t) == pc[t] = "ga_peers" /\ pc'[t] = "done"

\* s lists the members of S, each once
ListOf(s, S) == Range(s) = S /\ Len(s) = Cardinality(S)

\* C28 (all known nodes): GetAllNodes returns the leader and the peers,
\* each once, when one of them is known, and the seed list when none is;
\* it never returns an empty list while there are seeds.
C28_AllKnownNodes ==
    [][\A t \in Threads :
          ListsNodes(t) =>
              /\ IF leader # NoNode \/ peers # <<>>
                 THEN ListOf(out'[t], ({leader} \cup Range(peers)) \ {NoNode})
                 ELSE out'[t] = cfgNodes
              /\ cfgNodes # <<>> => out'[t] # <<>>]_vars

\* the step in which a probe of t's refresh is taken for a success
ProbeSucceeds(t) == pc[t] = "dl_probe" /\ pc'[t] = "dl_apply"

\* C29 (no leader reported): a probe succeeds only when the status document
\* carries a leader, and whenever cm.lastUpdate is not the zero time
\* cm.leader is not empty.
C29_LeaderKnown ==
    /\ [][\A t \in Threads :
            ProbeSucceeds(t) =>
                /\ StatusReply(Candidates[idx[t]]).leader # NoNode
                /\ resp'[t].leader # NoNode
                /\ leader' # NoNode]_vars
    /\ [](lastUpdate # ZeroTime => leader # NoNode)

\* a refresh has failed on documents without a leader, from seeds that
\* answer, after an earlier refresh had succeeded
C29_Witness ==
    \E t \in Threads :
        /\ pc[t] = "done" /\ ret[t] = "discover_failed"
        /\ entry[t].env = envChanges
        /\ clusterLeader = NoNode
        /\ Range(cfgNodes) \subseteq up
        /\ lastUpdate # ZeroTime
        /\ leader # NoNode

(***************************************************************************)
(* Properties of createClient and connectToAnyNode, checked under Spec.    *)
(***************************************************************************)
\* the step in which the liveness check of createClient, called by t, returns
ChecksHandle(t) == pc[t] = "cc_test" /\ pc'[t] # "cc_test"

\* C30 (first live node): the handle connect binds is the handle of the
\* node it was trying when the liveness check first succeeded, and every
\* other handle it has opened is closed by then; a handle whose liveness
\* check fails is closed in that step and not bound, and connect goes on
\* with the next node in its order; a closed handle is never the bound one.
C30_FirstLive ==
    /\ [][\A t \in Threads :
            ChecksHandle(t) =>
                IF NodeAnswers(node[t])
                THEN /\ client' = newh[t]
                     /\ handles'[client'].node = node[t]
                     /\ idx[t] > 0 => node[t] = cand[t][idx[t]]
                     /\ \A h \in 1..Len(handles') :
                           handles'[h].closes = 0 <=> h = client'
                     /\ ret'[t] = "nil"
                ELSE /\ handles'[newh[t]].closes = 1
                     /\ client' = client
                     /\ client' # newh[t]
                     /\ (idx[t] > 0 /\ idx[t] < Len(cand[t])) =>
                           /\ pc'[t] = "cc_open"
                           /\ node'[t] = cand[t][idx[t] + 1]]_vars
    /\ [](client # NilClient => handles[client].closes = 0)

\* NewConn has returned a Conn bound to the second node it has opened a
\* handle for; the handle of the first one is closed
C30_Witness ==
    /\ connState = "open"
    /\ Len(handles) >= 2
    /\ client = Len(handles)
    /\ handles[1].closes = 1
    /\ handles[1].node # handles[client].node
    /\ \E t \in Threads : Len(cand[t]) >= 2

(***************************************************************************)
(* Properties of the handles of the Conn, checked under Spec.              *)
(***************************************************************************)
\* the handles that are opened and not yet closed
Live == {h \in 1..Len(handles) : handles[h].closes = 0}

\* C31 (one live handle): a Conn never has more than one handle that is
\* opened and not yet closed; reconnect has closed the old handle before
\* connect opens another one.
C31_OneLiveHandle ==
    /\ Cardinality(Live) <= 1
    /\ \A t \in Threads :
          (pc[t] = "cc_test" /\ newh[t] # NilClient) => Live = {newh[t]}

\* a reconnect has closed the handle its call had read, and NewConn had
\* opened two handles one after the other
C31_Witness ==
    \E t \in Threads :
        /\ reconnects[t] >= 1
        /\ lclient[t] # NilClient
        /\ handles[lclient[t]].closes = 1
        /\ Len(handles) >= 2
        /\ Live = {}

\* the step in which a reconnect or a Close takes the handle away
Unbinds == \E t \in Threads : pc[t] \in {"rc_lock", "cl"} /\ pc'[t] # pc[t]

\* C32 (closed exactly once): no handle is ever closed twice; the bound
\* handle is closed only by a reconnect or by Close, which take it out of
\* c.client in the same step; and after Close no handle is left open.
C32_ClosedOnce ==
    /\ [](\A h \in 1..Len(handles) : handles[h].closes <= 1)
    /\ [][\A h \in 1..Len(handles) :
            (handles'[h].closes # handles[h].closes /\ client = h) =>
                /\ Unbinds
                /\ client' = NilClient]_vars
    /\ [](closed /\ mu.w = NoThread => Live = {})

\* Close has closed the bound handle, a second Close has returned after it
C32_Witness ==
    \E t, u \in Threads :
        /\ op[t] = "Close" /\ pc[t] = "done" /\ ~entry[t].afterClose
        /\ op[u] = "Close" /\ pc[u] = "done" /\ entry[u].afterClose
        /\ Len(handles) >= 1
        /\ \A h \in 1..Len(handles) : handles[h].closes = 1

\* the goroutines that are in the rebind of a failed call: past c.mu.Lock()
\* and in reconnect
Rebinding ==
    {t \in Threads :
        /\ op[t] \in CtxOps
        /\ pc[t] \in {"cn_lock", "dl_enter", "dl_probe", "dl_apply", "cn_select",
                     "cn_any", "cc_open", "cc_test"}}

\* C33 (one rebind at a time): at most one goroutine is in the rebind of a
\* failed call, it holds c.mu, and no Close runs while it does.
C33_OneRebind ==
    /\ [](Cardinality(Rebinding) <= 1)
    /\ [](\A t \in Rebinding : mu.w = t)
    /\ [][\A t \in Threads : Closes(t) => Rebinding = {}]_vars

\* one call is in its rebind while another call, failed on the same
\* handle, waits for c.mu
C33_Witness ==
    \E t, u \in Threads :
        /\ t \in Rebinding
        /\ op[u] \in CtxOps /\ pc[u] = "rc_lock"
        /\ lclient[u] = lclient[t]

\* the step in which the call of t issues a request on the handle it read
Issues(t) == pc[t] = "ex_attempt" /\ tries'[t] = tries[t] + 1

\* C34 (no use beside a mutation): ExecContext, QueryContext and Ping issue
\* their requests only on a handle that is still open and still the bound
\* one, never on one a reconnect or a Close has closed meanwhile.
C34_NoUseAfterClose ==
    [][\A t \in Threads :
          Issues(t) =>
              /\ HandleOpen(lclient[t])
              /\ client = lclient[t]]_vars

\* the step in which the call of t, failed with the error of its ctx,
\* begins its reconnect
CancelledRebinds(t) == pc[t] = "rc_lock" /\ pc'[t] = "cn_lock" /\ CtxErr(t)

\* C35 (cancellation and siblings): a call that has failed with the error of
\* its cancelled ctx neither closes nor takes away the handle that another
\* call has read and is about to use.
C35_CancelSiblings ==
    [][\A t, u \in Threads :
          (CancelledRebinds(t) /\ u # t /\ pc[u] = "ex_attempt") =>
              /\ handles'[lclient[u]].closes = handles[lclient[u]].closes
              /\ client = lclient[u] => client' = client]_vars

\* C36 (closed for good): outside the critical sections a closed Conn has
\* no handle; c.closed never goes back to false; and once it is true no
\* handle is opened and none is bound, whatever reconnect the Close races
\* with.
C36_ClosedForGood ==
    /\ [](closed /\ mu.w = NoThread => client = NilClient)
    /\ [][closed =>
            /\ closed'
            /\ Len(handles') = Len(handles)
            /\ client' # client => client' = NilClient]_vars

\* the Conn, which had a handle, is closed, and a Ping called afterwards
\* has been refused
C36_Witness ==
    \E t, u \in Threads :
        /\ closed
        /\ op[u] = "Close" /\ pc[u] = "done"
        /\ op[t] = "Ping" /\ pc[t] = "done" /\ entry[t].afterClose
        /\ ret[t] = "closed"
        /\ Len(handles) >= 1

\* the calls of t and u have both failed on one handle; t has begun its
\* reconnect, u waits to begin its own
BothFailed(t, u) ==
    /\ t # u
    /\ op[t] \in CtxOps /\ op[u] \in CtxOps
    /\ lclient[t] # NilClient /\ lclient[u] = lclient[t]
    /\ reconnects[t] >= 1
    /\ pc[u] = "rc_lock"

NewConnReturns(t) == op[t] = "NewConn" /\ pc[t] # "done" /\ pc'[t] = "done"

\* C40 (NewConn): NewConn returns a Conn that is not closed and holds an
\* open handle to a node that has just passed the liveness check, or it
\* returns an error and no Conn, and then no handle it has opened is left
\* open.
C40_NewConn ==
    [][\A t \in Threads :
          NewConnReturns(t) =>
              IF ret'[t] = "nil"
              THEN /\ connState' = "open"
                   /\ ~closed'
                   /\ client' # NilClient
                   /\ handles'[client'].closes = 0
                   /\ pc[t] = "cc_test"
                   /\ handles'[client'].node = node[t]
                   /\ NodeAnswers(node[t])
              ELSE /\ connState' = "failed"
                   /\ client' = NilClient
                   /\ \A h \in 1..Len(handles') : handles'[h].closes = 1]_vars

\* NewConn has returned an error after it had opened handles
C40_Witness ==
    /\ connState = "failed"
    /\ Len(handles) >= 1
    /\ \A h \in 1..Len(handles) : handles[h].closes = 1
    /\ \E t \in Threads : op[t] = "NewConn" /\ pc[t] = "done" /\ ret[t] = "connect_failed"

=============================================================================
